---- MODULE Spec2Model ----
(***************************************************************************)
(* Model of src/bulk/ops-local/python/collect_yaml_has_wip.py: one run of  *)
(* main() is a walk of pc over the statements of the function.  The        *)
(* environment of a run (the text on standard input, the contents of the   *)
(* filesystem, the lists glob.glob returns) is chosen in Init and is only  *)
(* read afterwards.                                                        *)
(***************************************************************************)
EXTENDS Naturals, Sequences, FiniteSets

VARIABLES
    stdin,      \* the document on standard input (environment)
    fs,         \* path -> what is on disk under that path (environment)
    expansion,  \* pattern -> the list glob.glob returns for it (environment)
    pc,         \* position of the run in main()
    paths,      \* local `paths`
    rows,       \* local `rows`
    pi,         \* number of patterns the outer for loop has taken
    matches,    \* the list the inner for loop iterates over
    mi,         \* number of matches the inner for loop has taken
    doc,        \* local `doc`
    nOpen,      \* number of file handles currently open
    globbed,    \* the patterns handed to glob.glob so far, in call order
    opened,     \* the paths handed to open() so far, in call order
    stdout,     \* the documents printed so far
    exit,       \* <<>> while running, <<code>> once the process has exited
    past        \* <<>> in the first run, then <<(stdout, exit) of the last run>>

vars == <<stdin, fs, expansion, pc, paths, rows, pi, matches, mi, doc,
          nOpen, globbed, opened, stdout, exit, past>>

env == <<stdin, fs, expansion>>

(* ------------------------------ bounds -------------------------------- *)

MaxPatterns == 2      \* longest request.inputs.paths list
MaxMatches == 2       \* longest list glob.glob returns for one pattern

Paths == {"a.yaml", "sub/b.yaml"}
Patterns == {"**/**/*.yaml", "a.yaml"}
Keys == {"version", "name"}

SeqsUpTo(S, n) == UNION {[1..k -> S] : k \in 0..n}

(* --------------------------- Python values ---------------------------- *)
(* A value is a type tag and the text of the scalar; a mapping carries    *)
(* for each key the value stored under it, or Absent.                     *)

Val(ty, v) == [ty |-> ty, v |-> v]
Absent == Val("absent", "")
None == Val("null", "")
NoKeys == [k \in Keys |-> Absent]

Scalar(ty, v) == [ty |-> ty, v |-> v, size |-> 0, m |-> NoKeys]
SeqDoc(n) == [ty |-> "seq", v |-> "", size |-> n, m |-> NoKeys]
MapDoc(m) ==
    [ty |-> "map", v |-> "",
     size |-> Cardinality({k \in Keys : m[k] # Absent}), m |-> m]
EmptyDict == MapDoc(NoKeys)

\* bool(x): None, False, 0, "", [] and {} are falsy.
Truthy(d) ==
    CASE d.ty = "null" -> FALSE
      [] d.ty = "bool" -> d.v = "true"
      [] d.ty = "int" -> d.v # "0"
      [] d.ty = "str" -> d.v # ""
      [] d.ty \in {"seq", "map"} -> d.size > 0

\* x or {}
OrEmptyDict(d) == IF Truthy(d) THEN d ELSE EmptyDict

\* isinstance(doc, dict)
IsDict(d) == d.ty = "map"

\* doc.get(key): the stored value, None when the key is missing.
DictGet(d, key) == IF d.m[key] = Absent THEN None ELSE d.m[key]

\* value == "<s>": a str compares equal only to a str of the same text.
EqStr(val, s) == val.ty = "str" /\ val.v = s

\* line 11: isinstance(doc, dict) and doc.get("version") == "wip"
IsWipCaseFolded(d) ==
    IsDict(d) /\ (EqStr(DictGet(d, "version"), "wip")
                  \/ EqStr(DictGet(d, "version"), "WIP"))
IsWip(d) == IsDict(d) /\ EqStr(DictGet(d, "version"), "wip")

(* ---------------------------- environment ----------------------------- *)

\* The documents yaml.safe_load can return for the files of the model.
VersionOnly(val) == MapDoc([NoKeys EXCEPT !["version"] = val])
Docs ==
    { Scalar("null", ""),                        \* empty file
      Scalar("str", "wip"),                      \* the scalar  wip
      SeqDoc(1),                                 \* - wip
      MapDoc(NoKeys),                            \* {}
      VersionOnly(Val("str", "wip")),            \* version: wip
      MapDoc([NoKeys EXCEPT !["version"] = Val("str", "wip"),
                            !["name"] = Val("str", "x")]),
      VersionOnly(Val("str", "WIP")),            \* version: WIP
      VersionOnly(Val("int", "1")),              \* version: 1
      VersionOnly(Val("bool", "true")),          \* version: true
      VersionOnly(None),                         \* version:
      MapDoc([NoKeys EXCEPT !["name"] = Val("str", "x")]) }

\* What a path names: something open() refuses (a directory, a dangling
\* link, a file without read permission), a file that is not UTF-8, a file
\* that is not YAML, or a file holding one YAML document.
File(kind, d) == [kind |-> kind, doc |-> d]
FileStates ==
    {File(k, None) : k \in {"noopen", "badutf8", "badyaml"}}
        \cup {File("yaml", d) : d \in Docs}

\* a.yaml is any of them; sub/b.yaml is one of five, to keep the model small.
StatesOf(path) ==
    IF path = "a.yaml"
    THEN FileStates
    ELSE {File("noopen", None), File("badyaml", None),
          File("yaml", Scalar("null", "")),
          File("yaml", VersionOnly(Val("str", "wip"))),
          File("yaml", VersionOnly(Val("str", "WIP")))}

\* line 9: the exception open(path, "r", encoding="utf-8") raises, if any.
OpenError(file) == IF file.kind = "noopen" THEN "OSError" ELSE "none"

\* line 10: the exception yaml.safe_load(f) raises, if any.
LoadError(file) ==
    CASE file.kind = "badutf8" -> "UnicodeDecodeError"
      [] file.kind = "badyaml" -> "YAMLError"
      [] OTHER -> "none"

\* line 9: mode "r" leaves the file as it is.
FsAfterOpenTruncating(f, path) ==
    IF OpenError(f[path]) = "none"
    THEN [f EXCEPT ![path] = File("yaml", None)]
    ELSE f
FsAfterOpen(f, path) == f

\* line 13: except Exception catches whatever lines 9-12 raise.
CaughtYamlErrorOnly(exc) == exc = "YAMLError"
Caught(exc) == TRUE

\* line 10: the value of yaml.safe_load(f) when it returns.
SafeLoad(file) == file.doc

\* The text on standard input: not JSON, a JSON value of some type, or a
\* JSON object with or without "inputs", itself with or without "paths".
Request(kind, inputs, pathsKey, list) ==
    [kind |-> kind, inputs |-> inputs, paths |-> pathsKey, list |-> list]
Requests ==
    {Request(k, "absent", "absent", <<>>) :
        k \in {"invalid", "list", "str", "num", "bool", "null"}}
      \cup {Request("obj", "absent", "absent", <<>>),
            Request("obj", "null", "absent", <<>>),
            Request("obj", "obj", "absent", <<>>)}
      \cup {Request("obj", "obj", "list", l) :
                l \in SeqsUpTo(Patterns, MaxPatterns)}

Range(s) == {s[i] : i \in 1..Len(s)}

\* line 3: json.load(sys.stdin) raises JSONDecodeError on text that is no JSON.
JsonLoadRaises(text) == text.kind = "invalid"

\* line 4: payload.get("inputs", {}).get("paths", []) raises AttributeError
\* when payload, or the value under "inputs", has no method get.
GetPathsRaisesNoDefaults(payload) ==
    payload.kind # "obj" \/ payload.inputs # "obj" \/ payload.paths = "absent"
GetPathsRaisesLenient(payload) ==
    payload.kind = "obj" /\ payload.inputs \notin {"absent", "obj"}
GetPathsRaises(payload) ==
    payload.kind # "obj" \/ payload.inputs \notin {"absent", "obj"}

\* line 4: the value of payload.get("inputs", {}).get("paths", []).
GetPaths(payload) ==
    IF payload.inputs = "absent" \/ payload.paths = "absent"
    THEN <<>>
    ELSE payload.list

\* line 7: glob.glob(pattern, recursive=True).  What it returns is the
\* environment's choice: a pattern without a wildcard expands to itself or
\* to nothing; a pattern with wildcards expands to any list of paths, in the
\* order of the directory scan, and with recursive=True a path is listed
\* once for every way ** segments match it, so possibly more than once.
Expansions(pattern) ==
    IF pattern \in Paths
    THEN {<<>>, <<pattern>>}
    ELSE SeqsUpTo(Paths, MaxMatches)

Glob(pattern) == expansion[pattern]

(* ------------------------------- runs --------------------------------- *)

Fresh ==
    /\ pc = "load"
    /\ paths = <<>>
    /\ rows = <<>>
    /\ pi = 0
    /\ matches = <<>>
    /\ mi = 0
    /\ doc = None
    /\ nOpen = 0
    /\ globbed = <<>>
    /\ opened = <<>>
    /\ stdout = <<>>
    /\ exit = <<>>

Init ==
    /\ stdin \in Requests
    /\ fs \in [Paths -> FileStates]
    /\ \A p \in Paths : fs[p] \in StatesOf(p)
    /\ expansion \in [Patterns -> SeqsUpTo(Paths, MaxMatches)]
    /\ \A p \in Patterns : expansion[p] \in Expansions(p)
    \* the expansion of a pattern the request does not name is never read
    /\ \A p \in Patterns \ Range(stdin.list) : expansion[p] = <<>>
    /\ Fresh
    /\ past = <<>>

\* An uncaught exception: traceback on stderr, exit status 1.
Crash ==
    /\ pc' = "crashed"
    /\ exit' = <<1>>

\* line 3: payload = json.load(sys.stdin)
LoadPayload ==
    /\ pc = "load"
    /\ IF JsonLoadRaises(stdin)
       THEN Crash
       ELSE pc' = "get" /\ exit' = exit
    /\ UNCHANGED <<env, paths, rows, pi, matches, mi, doc, nOpen, globbed,
                   opened, stdout, past>>

\* lines 4-5: paths = payload.get(...).get(...); rows = []
ReadPaths ==
    /\ pc = "get"
    /\ IF GetPathsRaises(stdin)
       THEN Crash /\ UNCHANGED <<paths, rows>>
       ELSE /\ paths' = GetPaths(stdin)
            /\ rows' = <<>>
            /\ pc' = "pattern"
            /\ exit' = exit
    /\ UNCHANGED <<env, pi, matches, mi, doc, nOpen, globbed, opened,
                   stdout, past>>

\* lines 6-7: the outer loop takes its next pattern and expands it.
NextPattern ==
    /\ pc = "pattern"
    /\ pi < Len(paths)
    /\ pi' = pi + 1
    /\ matches' = Glob(paths[pi + 1])
    /\ globbed' = Append(globbed, paths[pi + 1])
    /\ mi' = 0
    /\ pc' = "match"
    /\ UNCHANGED <<env, paths, rows, doc, nOpen, opened, stdout, exit, past>>

\* lines 7-9, 13-14: the inner loop takes its next path and opens it; an
\* exception that line 13 catches sends the loop on to the next path.
OpenMatch ==
    /\ pc = "match"
    /\ mi < Len(matches)
    /\ mi' = mi + 1
    /\ opened' = Append(opened, matches[mi + 1])
    /\ fs' = FsAfterOpen(fs, matches[mi + 1])
    /\ LET exc == OpenError(fs[matches[mi + 1]])
       IN  IF exc = "none"
           THEN pc' = "read" /\ nOpen' = nOpen + 1 /\ exit' = exit
           ELSE /\ nOpen' = nOpen
                /\ IF Caught(exc) THEN pc' = "match" /\ exit' = exit ELSE Crash
    /\ UNCHANGED <<stdin, expansion, paths, rows, pi, matches, doc, globbed,
                   stdout, past>>

\* line 7: the inner loop is exhausted; back to the outer loop.
EndMatches ==
    /\ pc = "match"
    /\ mi = Len(matches)
    /\ pc' = "pattern"
    /\ UNCHANGED <<env, paths, rows, pi, matches, mi, doc, nOpen, globbed,
                   opened, stdout, exit, past>>

\* lines 9-10: leaving the with block closes f, whether safe_load returned
\* or raised.
HandlesAfterWithLeaky(n, raised) == IF raised THEN n ELSE n - 1
HandlesAfterWith(n, raised) == n - 1

\* lines 9-10, 13-14: doc = yaml.safe_load(f) or {}, then the with block is
\* left; an exception that line 13 catches sends the loop on to the next path.
LoadDoc ==
    /\ pc = "read"
    /\ LET exc == LoadError(fs[matches[mi]])
       IN  /\ nOpen' = HandlesAfterWith(nOpen, exc # "none")
           /\ IF exc = "none"
              THEN /\ doc' = OrEmptyDict(SafeLoad(fs[matches[mi]]))
                   /\ pc' = "check"
                   /\ exit' = exit
              ELSE /\ doc' = doc
                   /\ IF Caught(exc) THEN pc' = "match" /\ exit' = exit ELSE Crash
    /\ UNCHANGED <<env, paths, rows, pi, matches, mi, globbed, opened,
                   stdout, past>>

\* lines 11-12: append a row when the document is a WIP mapping.
RowsAfterDedup(rs, d, path) ==
    IF IsWip(d) /\ \A i \in 1..Len(rs) : rs[i].path # path
    THEN Append(rs, [path |-> path])
    ELSE rs
RowsAfterPrepend(rs, d, path) ==
    IF IsWip(d) THEN <<[path |-> path]>> \o rs ELSE rs
RowsAfterReplace(rs, d, path) ==
    IF IsWip(d) THEN <<[path |-> path]>> ELSE rs
RowsAfter(rs, d, path) ==
    IF IsWip(d) THEN Append(rs, [path |-> path]) ELSE rs

Classify ==
    /\ pc = "check"
    /\ rows' = RowsAfter(rows, doc, matches[mi])
    /\ pc' = "match"
    /\ UNCHANGED <<env, paths, pi, matches, mi, doc, nOpen, globbed, opened,
                   stdout, exit, past>>

\* line 15: print(json.dumps({"rows": rows})) writes one document.
StdoutAfterPrintPerRow(out, rs) ==
    out \o [i \in 1..Len(rs) |-> [rows |-> <<rs[i]>>]]
StdoutAfterPrint(out, rs) == Append(out, [rows |-> rs])

\* line 15, after the outer loop; then main returns and the interpreter
\* exits with status 0.
PrintRows ==
    /\ pc = "pattern"
    /\ pi = Len(paths)
    /\ stdout' = StdoutAfterPrint(stdout, rows)
    /\ exit' = <<0>>
    /\ pc' = "done"
    /\ UNCHANGED <<env, paths, rows, pi, matches, mi, doc, nOpen, globbed,
                   opened, past>>

Exited == pc \in {"done", "crashed"}

Next ==
    \/ LoadPayload
    \/ ReadPaths
    \/ NextPattern
    \/ OpenMatch
    \/ EndMatches
    \/ LoadDoc
    \/ Classify
    \/ PrintRows

Spec == Init /\ [][Next]_vars

\* main() takes its next step whenever it has one: nothing suspends it.
FairSpec == Spec /\ WF_vars(Next)

\* lines 16-17: the script is run again, as a new process with new locals,
\* on the same standard input and the environment the last run left.
\* `past` keeps what the last run wrote and how it exited.
Rerun ==
    /\ Exited
    /\ past' = <<[stdout |-> stdout, exit |-> exit]>>
    /\ pc' = "load"
    /\ paths' = <<>>
    /\ rows' = <<>>
    /\ pi' = 0
    /\ matches' = <<>>
    /\ mi' = 0
    /\ doc' = None
    /\ nOpen' = 0
    /\ globbed' = <<>>
    /\ opened' = <<>>
    /\ stdout' = <<>>
    /\ exit' = <<>>
    /\ UNCHANGED env

NextRerun == Next \/ Rerun

SpecRerun == Init /\ [][NextRerun]_vars

(* ------------------------------ claims -------------------------------- *)
(* The definitions below state the properties; none of them is used by    *)
(* the actions above.                                                     *)

\* E: the expansions of the request's patterns, concatenated in input order.
RECURSIVE Concat(_)
Concat(list) ==
    IF list = <<>> THEN <<>> ELSE expansion[Head(list)] \o Concat(Tail(list))
AllEntries == IF stdin.kind = "obj" /\ stdin.inputs = "obj" /\ stdin.paths = "list"
              THEN Concat(stdin.list)
              ELSE <<>>

\* A WIP document: a YAML mapping whose version is exactly the string wip.
QualifiesWip(file) ==
    /\ file.kind = "yaml"
    /\ file.doc.ty = "map"
    /\ file.doc.m["version"] = Val("str", "wip")

\* A file that cannot be opened, read, decoded or parsed.
Unparsable(file) == file.kind \in {"noopen", "badutf8", "badyaml"}

Count(seq, x) == Cardinality({i \in 1..Len(seq) : seq[i] = x})
Row(path) == [path |-> path]
WipRows(seq) == [i \in 1..Len(SelectSeq(seq, LAMBDA q : QualifiesWip(fs[q])))
                   |-> Row(SelectSeq(seq, LAMBDA q : QualifiesWip(fs[q]))[i])]
IsPrefix(s, t) == Len(s) <= Len(t) /\ \A i \in 1..Len(s) : s[i] = t[i]
Printed == pc = "done" /\ Len(stdout) = 1
WellFormed == stdin.kind = "obj" /\ stdin.inputs \in {"absent", "obj"}
NoPaths ==
    /\ stdin.kind = "obj"
    /\ \/ stdin.inputs = "absent"
       \/ stdin.inputs = "obj" /\ stdin.paths = "absent"
       \/ stdin.inputs = "obj" /\ stdin.paths = "list" /\ stdin.list = <<>>

\* C1 (as claimed): in the output, every matched file holding a WIP
\* document has its path in rows exactly once, however many expansion
\* entries name it.
C1_ExactlyOnce ==
    Printed =>
        \A p \in Range(AllEntries) :
            QualifiesWip(fs[p]) => Count(stdout[1].rows, Row(p)) = 1

\* C1 (amended): in the output, every matched file holding a WIP document
\* has its path in rows once per expansion entry naming it: at least once,
\* and exactly once when exactly one entry names it.
C1_OncePerEntry ==
    Printed =>
        \A p \in Range(AllEntries) :
            QualifiesWip(fs[p]) =>
                /\ Count(stdout[1].rows, Row(p)) = Count(AllEntries, p)
                /\ Count(stdout[1].rows, Row(p)) >= 1

C1_Witness ==
    /\ Printed
    /\ \E p \in Paths :
        /\ QualifiesWip(fs[p])
        /\ fs[p].doc.m["name"] # Absent
        /\ Count(AllEntries, p) = 2
        /\ Count(stdout[1].rows, Row(p)) = 2
    /\ \E q \in Paths :
        /\ QualifiesWip(fs[q])
        /\ Count(AllEntries, q) = 1
        /\ Count(stdout[1].rows, Row(q)) = 1

\* C2: a matched file whose document is not a mapping, or is a mapping
\* whose version is absent or anything but the string wip, never has a row:
\* neither in rows at any point of the run nor in the output.
C2_NoRowUnlessExactlyWip ==
    /\ \A i \in 1..Len(rows) : QualifiesWip(fs[rows[i].path])
    /\ \A n \in 1..Len(stdout) : \A i \in 1..Len(stdout[n].rows) :
           QualifiesWip(fs[stdout[n].rows[i].path])

C2_Witness ==
    /\ Printed
    /\ fs["a.yaml"] = File("yaml", VersionOnly(Val("str", "WIP")))
    /\ QualifiesWip(fs["sub/b.yaml"])
    /\ opened = <<"a.yaml", "sub/b.yaml">>
    /\ stdout[1].rows = <<Row("sub/b.yaml")>>

\* C3: a matched path that cannot be opened, read, decoded or parsed gets
\* no row; once a file has been accessed the run never aborts and always has
\* a next step until it exits; it exits with code 0, after it has taken every
\* entry of every expansion.
C3_FailOpen ==
    /\ \A i \in 1..Len(rows) : ~Unparsable(fs[rows[i].path])
    /\ opened # <<>> => pc # "crashed"
    /\ (opened # <<>> /\ ~Exited) => ENABLED Next
    /\ (opened # <<>> /\ Exited) =>
           /\ exit = <<0>>
           /\ Len(stdout) = 1
           /\ opened = AllEntries
           /\ \A i \in 1..Len(stdout[1].rows) :
                  ~Unparsable(fs[stdout[1].rows[i].path])

C3_Witness ==
    /\ Printed
    /\ exit = <<0>>
    /\ Len(opened) = 3
    /\ fs[opened[1]].kind = "badutf8"
    /\ QualifiesWip(fs[opened[2]])
    /\ fs[opened[3]].kind = "badutf8"
    /\ stdout[1].rows = <<Row(opened[2])>>

C5_RowsInExpansionOrder ==
    /\ IsPrefix(opened, AllEntries)
    /\ pc \notin {"read", "check"} => rows = WipRows(opened)
    /\ pc \in {"read", "check"} =>
           rows = WipRows(SubSeq(opened, 1, Len(opened) - 1))
    /\ Printed => stdout[1].rows = WipRows(AllEntries)

C5_Witness ==
    /\ Printed
    /\ stdin.list = <<"**/**/*.yaml", "a.yaml">>
    /\ expansion["**/**/*.yaml"] = <<"sub/b.yaml", "a.yaml">>
    /\ stdout[1].rows = <<Row("sub/b.yaml"), Row("a.yaml"), Row("a.yaml")>>

\* C6: when standard input is not JSON, or is JSON but not an object, the
\* run calls neither glob nor open, writes nothing to standard output,
\* never exits with code 0, and goes on until it has aborted.
C6_MalformedRequestAborts ==
    stdin.kind # "obj" =>
        /\ globbed = <<>>
        /\ opened = <<>>
        /\ stdout = <<>>
        /\ pc # "done"
        /\ exit \in {<<>>, <<1>>}
        /\ ~Exited => ENABLED Next
        /\ Exited => exit = <<1>>

C6_Witness ==
    /\ stdin.kind = "list"
    /\ pc = "crashed"
    /\ exit = <<1>>
    /\ stdout = <<>>

\* C7: a run leaves standard input, the filesystem and the expansions as
\* they were, and a run that follows another on them writes the same
\* output and exits with the same code.
C7_RerunSameOutput ==
    /\ [][env' = env]_vars
    /\ []((Exited /\ past # <<>>) =>
              past[1] = [stdout |-> stdout, exit |-> exit])

C7_Witness ==
    /\ past # <<>>
    /\ Printed
    /\ Len(opened) = 3
    /\ Len(stdout[1].rows) = 2

\* C8: a run on a well-formed request object reaches its end with exactly
\* one document written; nothing is written more than once, or before every
\* pattern has been expanded and every entry taken.
C8_TerminatesWithOneOutput ==
    /\ WellFormed => <>Printed
    /\ [](Len(stdout) <= 1)
    /\ [](stdout # <<>> =>
              /\ pc = "done"
              /\ globbed = paths
              /\ paths = GetPaths(stdin)
              /\ opened = AllEntries)

C8_Witness ==
    /\ Printed
    /\ Len(globbed) = 2
    /\ Len(opened) = 3
    /\ Len(stdout[1].rows) = 2

\* C9: at most one file handle is open at any point, and none is open
\* outside the with block: not when the next path is taken, not after a
\* read that raised, not when the output is written, not after the run.
C9_HandleScoped ==
    /\ nOpen <= 1
    /\ pc # "read" => nOpen = 0

C9_Witness ==
    /\ pc = "match"
    /\ nOpen = 0
    /\ Len(opened) = 2
    /\ LoadError(fs[opened[1]]) = "none" /\ OpenError(fs[opened[1]]) = "none"
    /\ LoadError(fs[opened[2]]) # "none"

\* C10: a step either leaves rows as it is or appends one row, for the path
\* being processed, whose document is a WIP mapping (a falsy document, a
\* failing file, a non-mapping and a version other than wip append
\* nothing); every row names a path already opened that holds a WIP
\* document, and there are never more rows than paths opened.
C10_RowsAppendOnly ==
    /\ [][\/ rows' = rows
          \/ /\ pc = "check"
             /\ QualifiesWip(fs[matches[mi]])
             /\ rows' = Append(rows, Row(matches[mi]))]_vars
    /\ [](/\ Len(rows) <= Len(opened)
          /\ \A i \in 1..Len(rows) :
                 /\ rows[i].path \in Range(opened)
                 /\ QualifiesWip(fs[rows[i].path]))

C10_Witness ==
    /\ pc = "match"
    /\ Len(opened) = 2
    /\ QualifiesWip(fs[opened[1]])
    /\ Unparsable(fs[opened[2]])
    /\ rows = <<Row(opened[1])>>

====
